---- MODULE Spec2Model ----
(***************************************************************************)
(* CropMix Optimizer (src/app.py): a Streamlit script that reads the       *)
(* sidebar widgets, keeps the two efficacy widgets of the "solveform" form  *)
(* in st.session_state, and on a form submit builds a two-variable linear   *)
(* program, hands it to OR-Tools GLOP and shows the outcome.                *)
(*                                                                         *)
(* Numbers.  Acreages, rates, caps and profits are integers; efficacies    *)
(* and the target are counted in hundredths (the widgets step by 0.01), so *)
(* the efficacy row and both efficacy utilizations carry the same factor   *)
(* 100.  A solution is an exact rational point [x, y, d] standing for      *)
(* C = x/d, S = y/d with d > 0 and gcd(x, y, d) = 1; no tolerance is used. *)
(***************************************************************************)
EXTENDS Integers, FiniteSets, Sequences

VARIABLES sidebar,        \* the values of the fourteen sidebar widgets
          session_state,  \* st.session_state: keys eff_corn, eff_soy
          form,           \* the form's widget values in the browser, not yet submitted
          out,            \* the outcome shown by the latest script run
          glop            \* how the OR-Tools build of this deployment behaves

vars == <<sidebar, session_state, form, out, glop>>

----------------------------------------------------------------------------
(* Bounds of the model and the values each widget is given.                *)

MaxAcres == 2
GridDen == 2

AcreVals == 0..MaxAcres
ProfitCornVals == {0 - 1, 1, 3}
ProfitSoyVals == {0 - 1, 2}
LaborCornVals == {1, 2}
LaborSoyVals == {1}
HerbCornVals == {3}
HerbSoyVals == {2}
NCornVals == {1}
NSoyVals == {2}
LaborCapVals == {1, 4}
HerbCapVals == {4, 6}
NCapVals == {3, 9}
TargetVals == {85, 88, 99}
EffCornVals == {90, 95}
EffSoyVals == {80, 87}

Fields ==
  {"total_acres", "profit_corn", "profit_soy", "labor_corn", "labor_soy",
   "herb_corn", "herb_soy", "N_corn", "N_soy", "labor_cap", "herb_cap",
   "N_cap", "target", "idle_ok"}

Dom(f) ==
  CASE f = "total_acres" -> AcreVals
    [] f = "profit_corn" -> ProfitCornVals
    [] f = "profit_soy" -> ProfitSoyVals
    [] f = "labor_corn" -> LaborCornVals
    [] f = "labor_soy" -> LaborSoyVals
    [] f = "herb_corn" -> HerbCornVals
    [] f = "herb_soy" -> HerbSoyVals
    [] f = "N_corn" -> NCornVals
    [] f = "N_soy" -> NSoyVals
    [] f = "labor_cap" -> LaborCapVals
    [] f = "herb_cap" -> HerbCapVals
    [] f = "N_cap" -> NCapVals
    [] f = "target" -> TargetVals
    [] f = "idle_ok" -> BOOLEAN

Sidebars ==
  [total_acres : AcreVals, profit_corn : ProfitCornVals, profit_soy : ProfitSoyVals,
   labor_corn : LaborCornVals, labor_soy : LaborSoyVals,
   herb_corn : HerbCornVals, herb_soy : HerbSoyVals,
   N_corn : NCornVals, N_soy : NSoyVals,
   labor_cap : LaborCapVals, herb_cap : HerbCapVals, N_cap : NCapVals,
   target : TargetVals, idle_ok : BOOLEAN]

GlopModes == {"unavailable", "abnormal", "corn", "soy"}

----------------------------------------------------------------------------
(* Exact rational arithmetic on points [x, y, d].                          *)

Abs(n) == IF n < 0 THEN 0 - n ELSE n

RECURSIVE Gcd(_, _)
Gcd(m, n) == IF n = 0 THEN m ELSE Gcd(n, m % n)

Point(x, y, d) ==
  LET s == IF d < 0 THEN 0 - 1 ELSE 1
      g == Gcd(Gcd(Abs(x), Abs(y)), Abs(d))
  IN [x |-> (s * x) \div g, y |-> (s * y) \div g, d |-> Abs(d) \div g]

----------------------------------------------------------------------------
(* The linear program solve() builds: rows a*C + b*S op c.                 *)

\* st.session_state.setdefault: the efficacies before any submit, in hundredths
DefaultEffCorn == 90
DefaultEffSoy == 87

Row(a, b, op, c) == [a |-> a, b |-> b, op |-> op, c |-> c]

EffCorn(ss) == ss.eff_corn

\* faulty variant: the soy efficacy is the literal default, not the submitted value
EffSoyDefault(ss) == DefaultEffSoy

EffSoy(ss) == ss.eff_soy

VarBounds == <<Row(1, 0, "ge", 0), Row(0, 1, "ge", 0)>>

\* faulty variant: the land row is an inequality whatever idle_ok says
LandRowIdle(sb) == Row(1, 1, "le", sb.total_acres)

\* faulty variant: the land row is an equality whatever idle_ok says
LandRowEq(sb) == Row(1, 1, "eq", sb.total_acres)

LandRow(sb) ==
  IF sb.idle_ok THEN Row(1, 1, "le", sb.total_acres)
  ELSE Row(1, 1, "eq", sb.total_acres)

LaborRow(sb) == Row(sb.labor_corn, sb.labor_soy, "le", sb.labor_cap)

\* faulty variant: the herbicide row is capped by the nitrogen cap
HerbRowWrongCap(sb) == Row(sb.herb_corn, sb.herb_soy, "le", sb.N_cap)

HerbRow(sb) == Row(sb.herb_corn, sb.herb_soy, "le", sb.herb_cap)

NitrogenRow(sb) == Row(sb.N_corn, sb.N_soy, "le", sb.N_cap)

NoOpRow == Row(0, 0, "ge", 0)

\* faulty variant: the efficacy row points the wrong way
EfficacyRowFlipped(sb, ss) ==
  Row(ss.eff_corn - sb.target, ss.eff_soy - sb.target, "le", 0)

EfficacyRow(sb, ss) ==
  Row(EffCorn(ss) - sb.target, EffSoy(ss) - sb.target, "ge", 0)

Constraints(sb, ss) ==
  VarBounds \o
  <<LandRow(sb), LaborRow(sb), HerbRow(sb), NitrogenRow(sb), NoOpRow,
    EfficacyRow(sb, ss)>>

\* faulty variant: the two profits are attached to the wrong crops
MaximizeSwapped(sb, p) == sb.profit_soy * p.x + sb.profit_corn * p.y

Maximize(sb, p) == sb.profit_corn * p.x + sb.profit_soy * p.y

----------------------------------------------------------------------------
(* GLOP: a simplex solver, which answers with a basic solution, that is a  *)
(* vertex of the feasible region.  The region lies in C >= 0, S >= 0 and    *)
(* under the land row, so it is bounded and, when not empty, has a vertex. *)

Sat(r, p) ==
  LET lhs == r.a * p.x + r.b * p.y
      rhs == r.c * p.d
  IN CASE r.op = "le" -> lhs <= rhs
       [] r.op = "ge" -> lhs >= rhs
       [] r.op = "eq" -> lhs = rhs

Det(r, q) == r.a * q.b - q.a * r.b

Meet(r, q) == Point(r.c * q.b - q.c * r.b, r.a * q.c - q.a * r.c, Det(r, q))

Vertices(rows) ==
  {Meet(rows[i], rows[j]) :
     <<i, j>> \in {ij \in (DOMAIN rows) \X (DOMAIN rows) :
                     ij[1] < ij[2] /\ Det(rows[ij[1]], rows[ij[2]]) # 0}}

FeasibleVertices(rows) ==
  {p \in Vertices(rows) : \A i \in DOMAIN rows : Sat(rows[i], p)}

\* p's objective is at least q's (both denominators are positive)
AtLeast(sb, p, q) == Maximize(sb, p) * q.d >= Maximize(sb, q) * p.d

OptimalVertices(sb, rows) ==
  LET fv == FeasibleVertices(rows)
  IN {p \in fv : \A q \in fv : AtLeast(sb, p, q)}

\* among equally good vertices the build's pivoting picks one end of the edge
Prefers(env, p, q) ==
  IF env = "corn"
  THEN p.x * q.d > q.x * p.d \/ (p.x * q.d = q.x * p.d /\ p.y * q.d >= q.y * p.d)
  ELSE p.y * q.d > q.y * p.d \/ (p.y * q.d = q.y * p.d /\ p.x * q.d >= q.x * p.d)

Solve(sb, rows, env) ==
  /\ env # "abnormal"
  /\ FeasibleVertices(rows) # {}

Solution(sb, rows, env) ==
  LET best == OptimalVertices(sb, rows)
  IN CHOOSE p \in best : \A q \in best : Prefers(env, p, q)

\* faulty variant: the objective is reported with its sign turned
ObjectiveValueNegated(sb, p) == [n |-> 0 - Maximize(sb, p), d |-> p.d]

ObjectiveValue(sb, p) == [n |-> Maximize(sb, p), d |-> p.d]

\* faulty variant: the efficacy utilization uses the literal defaults
UsedDefaults(sb, ss, p) ==
  [Land |-> [n |-> p.x + p.y, d |-> p.d],
   Labor |-> [n |-> sb.labor_corn * p.x + sb.labor_soy * p.y, d |-> p.d],
   Herbicide |-> [n |-> sb.herb_corn * p.x + sb.herb_soy * p.y, d |-> p.d],
   Nitrogen |-> [n |-> sb.N_corn * p.x + sb.N_soy * p.y, d |-> p.d],
   Efficacy_LHS |-> [n |-> DefaultEffCorn * p.x + DefaultEffSoy * p.y, d |-> p.d],
   Efficacy_RHS |-> [n |-> sb.target * (p.x + p.y), d |-> p.d]]

Used(sb, ss, p) ==
  [Land |-> [n |-> p.x + p.y, d |-> p.d],
   Labor |-> [n |-> sb.labor_corn * p.x + sb.labor_soy * p.y, d |-> p.d],
   Herbicide |-> [n |-> sb.herb_corn * p.x + sb.herb_soy * p.y, d |-> p.d],
   Nitrogen |-> [n |-> sb.N_corn * p.x + sb.N_soy * p.y, d |-> p.d],
   Efficacy_LHS |-> [n |-> ss.eff_corn * p.x + ss.eff_soy * p.y, d |-> p.d],
   Efficacy_RHS |-> [n |-> sb.target * (p.x + p.y), d |-> p.d]]

NoOut == [status |-> "NONE"]

solve(sb, ss, env) ==
  IF env = "unavailable"
  THEN [status |-> "ERROR", msg |-> "Could not create OR-Tools solver."]
  ELSE LET rows == Constraints(sb, ss)
       IN IF ~Solve(sb, rows, env)
          THEN [status |-> "INFEASIBLE_OR_ERROR",
                msg |-> "No optimal solution. Try relaxing caps, lowering target, or allowing idle land."]
          ELSE LET p == Solution(sb, rows, env)
               IN [status |-> "OPTIMAL",
                   corn |-> [n |-> p.x, d |-> p.d],
                   soy |-> [n |-> p.y, d |-> p.d],
                   profit |-> ObjectiveValue(sb, p),
                   used |-> Used(sb, ss, p)]

----------------------------------------------------------------------------
(* The script runs.                                                        *)

\* faulty variant: the run reads the values of the previous submit
StaleWidgetState(ss, frm) == ss

\* a submit delivers the form's widget values to session_state under their keys
WidgetState(ss, frm) == frm

Init ==
  /\ sidebar \in Sidebars
  /\ session_state = [eff_corn |-> DefaultEffCorn, eff_soy |-> DefaultEffSoy]
  /\ form = session_state
  /\ out = NoOut
  /\ glop \in GlopModes

\* a sidebar widget changes: the script reruns with submitted = False
SidebarChange ==
  \E f \in Fields : \E v \in Dom(f) :
    /\ sidebar' = [sidebar EXCEPT ![f] = v]
    /\ out' = NoOut
    /\ UNCHANGED <<session_state, form, glop>>

\* the user edits an efficacy widget inside the form: nothing is sent
FormEdit ==
  \E c \in EffCornVals : \E s \in EffSoyVals :
    /\ form' = [eff_corn |-> c, eff_soy |-> s]
    /\ UNCHANGED <<sidebar, session_state, out, glop>>

\* the Solve button: the script reruns with submitted = True
Submit ==
  /\ session_state' = WidgetState(session_state, form)
  /\ out' = solve(sidebar, session_state', glop)
  /\ UNCHANGED <<sidebar, form, glop>>

Next == SidebarChange \/ FormEdit \/ Submit

Spec == Init /\ [][Next]_vars

----------------------------------------------------------------------------
(* The properties.  Each is written from the statement it checks, with the *)
(* sidebar and session values of the state, not with the rows built above. *)

Optimal == out.status = "OPTIMAL"

Ran == out.status # "NONE"

\* the point (x/d, y/d) meets every constraint of the scenario (sb, ec, es)
Meets(sb, ec, es, x, y, d) ==
  /\ x >= 0
  /\ y >= 0
  /\ IF sb.idle_ok THEN x + y <= sb.total_acres * d ELSE x + y = sb.total_acres * d
  /\ sb.labor_corn * x + sb.labor_soy * y <= sb.labor_cap * d
  /\ sb.herb_corn * x + sb.herb_soy * y <= sb.herb_cap * d
  /\ sb.N_corn * x + sb.N_soy * y <= sb.N_cap * d
  /\ ec * x + es * y >= sb.target * (x + y)

Grid == 0..(GridDen * MaxAcres)

\* C1: an OPTIMAL outcome is a feasible point whose reported profit is
\* profit_corn*C + profit_soy*S, and no feasible point of the grid of
\* multiples of 1/GridDen has a strictly higher profit.
C1_OptimalMaximizesProfit ==
  Optimal =>
    LET x == out.corn.n
        y == out.soy.n
        d == out.corn.d
    IN /\ d > 0 /\ out.soy.d = d
       /\ Meets(sidebar, session_state.eff_corn, session_state.eff_soy, x, y, d)
       /\ out.profit.n * d = (sidebar.profit_corn * x + sidebar.profit_soy * y) * out.profit.d
       /\ \A i \in Grid : \A j \in Grid :
            Meets(sidebar, session_state.eff_corn, session_state.eff_soy, i, j, GridDen)
              => (sidebar.profit_corn * i + sidebar.profit_soy * j) * d
                   <= (sidebar.profit_corn * x + sidebar.profit_soy * y) * GridDen

\* an OPTIMAL outcome that is not the only feasible grid point: some feasible
\* grid point earns strictly less than the reported profit
C1_Witness ==
  /\ Optimal
  /\ \E i \in Grid : \E j \in Grid :
       /\ Meets(sidebar, session_state.eff_corn, session_state.eff_soy, i, j, GridDen)
       /\ (sidebar.profit_corn * i + sidebar.profit_soy * j) * out.profit.d
            < out.profit.n * GridDen

\* C2: with allow_idle_land = false an OPTIMAL outcome plants exactly
\* total_acres, and neither acreage is negative.
C2_EqualityLand ==
  (Optimal /\ ~sidebar.idle_ok) =>
    /\ out.corn.n + out.soy.n = sidebar.total_acres * out.corn.d
    /\ out.corn.d = out.soy.d
    /\ out.corn.d > 0
    /\ out.corn.n >= 0
    /\ out.soy.n >= 0

\* equality land, both profits negative: planting nothing would earn more
C2_Witness ==
  /\ Optimal
  /\ ~sidebar.idle_ok
  /\ sidebar.total_acres > 0
  /\ sidebar.profit_corn < 0
  /\ sidebar.profit_soy < 0

\* C3: an OPTIMAL outcome stays within the labor, herbicide and nitrogen caps.
C3_ResourceCaps ==
  Optimal =>
    LET x == out.corn.n
        y == out.soy.n
        d == out.corn.d
    IN /\ d > 0
       /\ sidebar.labor_corn * x + sidebar.labor_soy * y <= sidebar.labor_cap * d
       /\ sidebar.herb_corn * x + sidebar.herb_soy * y <= sidebar.herb_cap * d
       /\ sidebar.N_corn * x + sidebar.N_soy * y <= sidebar.N_cap * d

\* an OPTIMAL outcome that uses up a cap while land is left over
C3_Witness ==
  /\ Optimal
  /\ out.corn.n + out.soy.n < sidebar.total_acres * out.corn.d
  /\ \/ sidebar.labor_corn * out.corn.n + sidebar.labor_soy * out.soy.n
          = sidebar.labor_cap * out.corn.d
     \/ sidebar.herb_corn * out.corn.n + sidebar.herb_soy * out.soy.n
          = sidebar.herb_cap * out.corn.d
     \/ sidebar.N_corn * out.corn.n + sidebar.N_soy * out.soy.n
          = sidebar.N_cap * out.corn.d

\* C4: a submit that ends OPTIMAL meets the blended efficacy target with the
\* efficacies the form held when it was submitted, and they are the ones
\* session_state holds afterwards.
C4_EfficacyMet ==
  [][(out'.status = "OPTIMAL" /\ form' = form) =>
       /\ session_state' = form
       /\ form.eff_corn * out'.corn.n + form.eff_soy * out'.soy.n
            >= sidebar.target * (out'.corn.n + out'.soy.n)]_vars

\* submitted efficacies that are not the defaults, one of them below the target
C4_Witness ==
  /\ Optimal
  /\ session_state = form
  /\ form.eff_corn # DefaultEffCorn
  /\ form.eff_soy # DefaultEffSoy
  /\ form.eff_soy < sidebar.target
  /\ out.corn.n + out.soy.n > 0

\* the scenario of the latest run has a point meeting every constraint (a
\* bounded region in C >= 0, S >= 0 is not empty exactly when it has a vertex)
Feasible == FeasibleVertices(Constraints(sidebar, session_state)) # {}

\* C5: a non-optimal outcome is SolverError when the solver was unavailable
\* or broke down and Infeasible otherwise, which is exactly when a working
\* solver finds no point meeting the constraints; the two statuses differ.
C5_StatusDistinguishes ==
  (Ran /\ ~Optimal) =>
    /\ out.status \in {"INFEASIBLE_OR_ERROR", "ERROR"}
    /\ (glop \in {"unavailable", "abnormal"}) => out.status = "ERROR"
    /\ (glop \in {"corn", "soy"}) => (out.status = "INFEASIBLE_OR_ERROR" /\ ~Feasible)

\* the latest run had equality land, some land, and a target above both efficacies
TargetAboveBoth ==
  /\ Ran
  /\ ~sidebar.idle_ok
  /\ sidebar.total_acres > 0
  /\ sidebar.target > session_state.eff_corn
  /\ sidebar.target > session_state.eff_soy

\* C6 as stated: with equality land, some land and a target above both
\* efficacies the outcome carries no values and is reported as Infeasible.
C6_AsStated ==
  TargetAboveBoth =>
    /\ DOMAIN out = {"status", "msg"}
    /\ out.status = "INFEASIBLE_OR_ERROR"

\* C6 amended: with equality land, some land and a target above both
\* efficacies the outcome is never OPTIMAL and carries no values; it is
\* INFEASIBLE_OR_ERROR when the solver was created and ERROR when it was not.
C6_TargetAboveBoth ==
  TargetAboveBoth =>
    /\ ~Optimal
    /\ DOMAIN out = {"status", "msg"}
    /\ out.status = IF glop = "unavailable" THEN "ERROR" ELSE "INFEASIBLE_OR_ERROR"

\* such a run on a build whose solver works
C6_Witness == TargetAboveBoth /\ glop \in {"corn", "soy"}

Min(a, b) == IF a <= b THEN a ELSE b

\* the latest run allowed idle land, had positive profits, a crop meeting the
\* target, and too little labor to plant every acre
LaborScarce ==
  /\ Ran
  /\ sidebar.idle_ok
  /\ sidebar.profit_corn > 0
  /\ sidebar.profit_soy > 0
  /\ \/ session_state.eff_corn >= sidebar.target
     \/ session_state.eff_soy >= sidebar.target
  /\ sidebar.labor_cap < Min(sidebar.labor_corn, sidebar.labor_soy) * sidebar.total_acres

\* C7 as stated: under LaborScarce the outcome is OPTIMAL with land left idle.
C7_AsStated ==
  LaborScarce =>
    /\ Optimal
    /\ out.corn.n + out.soy.n < sidebar.total_acres * out.corn.d

\* C7 amended: under LaborScarce the outcome is OPTIMAL with land left idle
\* whenever the solver was created and ended normally; it is ERROR when the
\* solver was not created and INFEASIBLE_OR_ERROR when it ended abnormally.
C7_IdleLandUsed ==
  LaborScarce =>
    CASE glop = "unavailable" -> out.status = "ERROR"
      [] glop = "abnormal" -> out.status = "INFEASIBLE_OR_ERROR"
      [] OTHER -> /\ Optimal
                  /\ out.corn.d > 0
                  /\ out.corn.d = out.soy.d
                  /\ out.corn.n + out.soy.n < sidebar.total_acres * out.corn.d

\* such a run on a build whose solver works, with something planted
C7_Witness ==
  /\ LaborScarce
  /\ Optimal
  /\ out.corn.n + out.soy.n > 0

\* C8: an OPTIMAL outcome's profit is not above the profit of the OPTIMAL
\* outcome of the same scenario with a higher profit_corn.
C8_MonotoneInProfitCorn ==
  Optimal =>
    \A pc \in ProfitCornVals :
      pc >= sidebar.profit_corn =>
        LET o2 == solve([sidebar EXCEPT !.profit_corn = pc], session_state, glop)
        IN o2.status = "OPTIMAL" =>
             o2.profit.n * out.profit.d >= out.profit.n * o2.profit.d

\* an OPTIMAL outcome that a higher profit_corn strictly improves
C8_Witness ==
  /\ Optimal
  /\ \E pc \in ProfitCornVals :
       /\ pc > sidebar.profit_corn
       /\ LET o2 == solve([sidebar EXCEPT !.profit_corn = pc], session_state, glop)
          IN /\ o2.status = "OPTIMAL"
             /\ o2.profit.n * out.profit.d > out.profit.n * o2.profit.d

\* C9: the outcome of every submit is the outcome of the sidebar and form
\* values on screen at that submit, whatever was solved or shown before.
C9_NoCrossRequestState ==
  [][(out'.status # "NONE" /\ form' = form) =>
       out' = solve(sidebar, form, glop)]_vars

\* a request whose form values differ from the defaults the session began with
C9_Witness ==
  /\ Ran
  /\ session_state = form
  /\ form.eff_corn # DefaultEffCorn
  /\ form.eff_soy # DefaultEffSoy

\* C10: each utilization of an OPTIMAL outcome is recomputed from the returned
\* acres and the inputs, the efficacy ones with the submitted efficacies.
C10_UtilizationRecomputed ==
  Optimal =>
    LET x == out.corn.n
        y == out.soy.n
        d == out.corn.d
        u == out.used
        Is(r, n) == r.d > 0 /\ r.n * d = n * r.d
    IN /\ DOMAIN u = {"Land", "Labor", "Herbicide", "Nitrogen",
                      "Efficacy_LHS", "Efficacy_RHS"}
       /\ Is(u.Land, x + y)
       /\ Is(u.Labor, sidebar.labor_corn * x + sidebar.labor_soy * y)
       /\ Is(u.Herbicide, sidebar.herb_corn * x + sidebar.herb_soy * y)
       /\ Is(u.Nitrogen, sidebar.N_corn * x + sidebar.N_soy * y)
       /\ Is(u.Efficacy_LHS, session_state.eff_corn * x + session_state.eff_soy * y)
       /\ Is(u.Efficacy_RHS, sidebar.target * (x + y))

\* an OPTIMAL outcome with both crops planted and submitted efficacies that
\* are not the defaults
C10_Witness ==
  /\ Optimal
  /\ out.corn.n > 0
  /\ out.soy.n > 0
  /\ session_state.eff_corn # DefaultEffCorn
  /\ session_state.eff_soy # DefaultEffSoy

====
